---- MODULE Spec2Model ----
(***************************************************************************)
(* Model of the GameDetail page (src/src/pages/GameDetail.tsx) and of the  *)
(* axios resource client it calls (src/unnamed/part_000).                  *)
(*                                                                         *)
(* Strings are sequences of one-character strings, so that createSlug,     *)
(* toLowerCase and includes are computed character by character.           *)
(***************************************************************************)
EXTENDS Integers, Sequences, FiniteSets, TLC

VARIABLES
    \* ---- GameDetail component (GameDetail.tsx:20-23) ----
    mounted,        \* a GameDetail instance is on screen
    epoch,          \* which instance (each mount creates fresh state)
    slug,           \* useParams().slug of the current render
    game,           \* useState(null)
    relatedGames,   \* useState([])
    loading,        \* useState(true)
    effectPending,  \* the useEffect([fetchGame]) of the last render has not run yet
    \* ---- resource client (part_000) ----
    authToken,      \* localStorage["auth_token"]
    inflight,       \* requests sent and not yet settled
    nextId,         \* number of requests sent so far
    diag,           \* what the last settled call reported on the console
    \* ---- direct calls of the pure functions ----
    call,           \* the function applied and its arguments
    ret             \* its result

vars == <<mounted, epoch, slug, game, relatedGames, loading, effectPending,
          authToken, inflight, nextId, diag, call, ret>>

compVars == <<mounted, epoch, slug, game, relatedGames, loading, effectPending,
              authToken, inflight, nextId, diag>>

-----------------------------------------------------------------------------
(* Bounds *)

MaxLen == 3          \* longest enumerated title (createSlug)
MaxGames == 2        \* longest enumerated collection (slug matching)
MaxCatalog == 10     \* longest enumerated collection (related games)
MaxRequests == 3     \* requests sent in one behaviour
MaxMounts == 2       \* GameDetail instances mounted in one behaviour

-----------------------------------------------------------------------------
(* Characters and strings *)

UpperLetters == <<"A","B","C","D","E","F","G","H","I","J","K","L","M",
                  "N","O","P","Q","R","S","T","U","V","W","X","Y","Z">>
LowerLetters == <<"a","b","c","d","e","f","g","h","i","j","k","l","m",
                  "n","o","p","q","r","s","t","u","v","w","x","y","z">>
Digits == {"0","1","2","3","4","5","6","7","8","9"}

Range(s) == {s[i] : i \in DOMAIN s}

\* \s of the regular expressions and of String.prototype.trim
Whitespace == {" ", "\t"}

\* the class [a-z0-9 -] of GameDetail.tsx:31
SlugClass == Range(LowerLetters) \cup Digits \cup {" ", "-"}

ToLowerChar(c) ==
    IF \E i \in DOMAIN UpperLetters : UpperLetters[i] = c
    THEN LowerLetters[CHOOSE i \in DOMAIN UpperLetters : UpperLetters[i] = c]
    ELSE c

toLowerCase(s) == [i \in 1..Len(s) |-> ToLowerChar(s[i])]

RECURSIVE DropLeading(_, _)
DropLeading(s, S) ==
    IF s # <<>> /\ Head(s) \in S THEN DropLeading(Tail(s), S) ELSE s

RECURSIVE DropTrailing(_, _)
DropTrailing(s, S) ==
    IF s # <<>> /\ s[Len(s)] \in S
    THEN DropTrailing(SubSeq(s, 1, Len(s) - 1), S)
    ELSE s

trim(s) == DropTrailing(DropLeading(s, Whitespace), Whitespace)

\* s.replace(/[^S]/g, "")
RemoveOutside(s, S) == SelectSeq(s, LAMBDA c : c \in S)

\* s.replace(/[S]+/g, rep)
RECURSIVE ReplaceRuns(_, _, _)
ReplaceRuns(s, S, rep) ==
    IF s = <<>> THEN <<>>
    ELSE IF Head(s) \in S
         THEN <<rep>> \o ReplaceRuns(DropLeading(s, S), S, rep)
         ELSE <<Head(s)>> \o ReplaceRuns(Tail(s), S, rep)

\* s.replace(/^-+|-+$/g, "")
StripHyphens(s) == DropTrailing(DropLeading(s, {"-"}), {"-"})

\* a title that is null/undefined in the payload
NoTitle == <<"null">>

\* the slug with the hyphen runs collapsed before the whitespace is replaced
createSlug_CollapseFirst(title) ==
    IF title = NoTitle \/ title = <<>> THEN <<>>
    ELSE StripHyphens(
           ReplaceRuns(
             ReplaceRuns(
               RemoveOutside(trim(toLowerCase(title)), SlugClass),
               {"-"}, "-"),
             Whitespace, "-"))

createSlug(title) ==
    IF title = NoTitle \/ title = <<>> THEN <<>>
    ELSE StripHyphens(
           ReplaceRuns(
             ReplaceRuns(
               RemoveOutside(trim(toLowerCase(title)), SlugClass),
               Whitespace, "-"),
             {"-"}, "-"))

\* a.includes(b)
includes(a, b) ==
    \E i \in 0..(Len(a) - Len(b)) : SubSeq(a, i + 1, i + Len(b)) = b

-----------------------------------------------------------------------------
(* Inputs of the direct calls *)

TitleChars == {"a", "B", "7", " ", "\t", "-", "!"}

RECURSIVE SeqsUpTo(_, _)
SeqsUpTo(S, n) ==
    IF n = 0 THEN {<<>>}
    ELSE LET shorter == SeqsUpTo(S, n - 1)
         IN  shorter \cup {Append(s, c) : s \in {t \in shorter : Len(t) = n - 1}, c \in S}

TitleLastOfUs == <<"T","h","e"," ","L","a","s","t"," ","o","f"," ","U","s"," ","2","!">>
SlugLastOfUs  == <<"t","h","e","-","l","a","s","t","-","o","f","-","u","s","-","2">>
TitleAB       == <<" "," ","A"," ","-","-"," ","B"," "," ">>
SlugAB        == <<"a","-","b">>

Titles == SeqsUpTo(TitleChars, MaxLen) \cup {TitleLastOfUs, TitleAB}

NoCall == [fn |-> "none"]
NoRet  == [stage |-> 0]

-----------------------------------------------------------------------------
(* Games *)

\* `undefined`: what Array.prototype.find returns when nothing matches, and
\* the falsy initial value null of useState(null)
NoGame == [id |-> 0]

\* games.find(pred), given the set of the indices whose game satisfies pred:
\* the first such game in collection order, undefined without one
find(games, hits) ==
    IF hits # {}
    THEN games[CHOOSE i \in hits : \A j \in hits : i <= j]
    ELSE NoGame

\* the matching with the containment test tried before the case-insensitive one
findGame_PartialFirst(games, s) ==
    LET exact == find(games, {i \in DOMAIN games : createSlug(games[i].title) = s})
        nocase == find(games, {i \in DOMAIN games :
                         toLowerCase(createSlug(games[i].title)) = toLowerCase(s)})
        partial == find(games, {i \in DOMAIN games :
                          \/ includes(createSlug(games[i].title), s)
                          \/ includes(s, createSlug(games[i].title))})
    IN  IF exact # NoGame THEN exact
        ELSE IF partial # NoGame THEN partial
        ELSE nocase

\* the three passes of fetchGame, GameDetail.tsx:69-91
findGame(games, s) ==
    LET exact == find(games, {i \in DOMAIN games : createSlug(games[i].title) = s})
        nocase == find(games, {i \in DOMAIN games :
                         toLowerCase(createSlug(games[i].title)) = toLowerCase(s)})
        partial == find(games, {i \in DOMAIN games :
                          \/ includes(createSlug(games[i].title), s)
                          \/ includes(s, createSlug(games[i].title))})
    IN  IF exact # NoGame THEN exact
        ELSE IF nocase # NoGame THEN nocase
        ELSE partial

-----------------------------------------------------------------------------
(* Related games, GameDetail.tsx:141-177 *)

GenreBonus == 10
ConsoleBonus == 8
PlayersBonus == 5
PopularBonus == 3
NewBonus == 2
RatingBonus == 4
PlayersWithin == 1
RatingWithin == 5     \* 0.5, ratings being counted in tenths
TopCount == 8
RelatedCount == 4

Abs(n) == IF n < 0 THEN -n ELSE n

\* the candidates without the filter on the id
otherGames_Unfiltered(currentGame, allGames) == allGames

\* allGames.filter((g) => g.id !== currentGame.id)
otherGames(currentGame, allGames) ==
    SelectSeq(allGames, LAMBDA g : g.id # currentGame.id)

\* the score with the rating bonus given for any rating
Score_RatingAlways(g, currentGame) ==
      (IF g.genre = currentGame.genre THEN GenreBonus ELSE 0)
    + (IF g.console_type = currentGame.console_type THEN ConsoleBonus ELSE 0)
    + (IF Abs(g.max_players - currentGame.max_players) <= PlayersWithin
       THEN PlayersBonus ELSE 0)
    + (IF g.is_popular THEN PopularBonus ELSE 0)
    + (IF g.is_new THEN NewBonus ELSE 0)
    + RatingBonus

\* the score computed by the map callback; genre 0 stands for a game without
\* genre, whose genre?.id is undefined (and equal to another undefined)
Score(g, currentGame) ==
      (IF g.genre = currentGame.genre THEN GenreBonus ELSE 0)
    + (IF g.console_type = currentGame.console_type THEN ConsoleBonus ELSE 0)
    + (IF Abs(g.max_players - currentGame.max_players) <= PlayersWithin
       THEN PlayersBonus ELSE 0)
    + (IF g.is_popular THEN PopularBonus ELSE 0)
    + (IF g.is_new THEN NewBonus ELSE 0)
    + (IF Abs(g.rating - currentGame.rating) <= RatingWithin THEN RatingBonus ELSE 0)

\* { ...game, score }
WithScore(g, sc) ==
    [id |-> g.id, title |-> g.title, genre |-> g.genre,
     console_type |-> g.console_type, max_players |-> g.max_players,
     rating |-> g.rating, is_popular |-> g.is_popular, is_new |-> g.is_new,
     score |-> sc]

scoredGames(currentGame, allGames) ==
    LET others == otherGames(currentGame, allGames)
    IN  [i \in 1..Len(others) |-> WithScore(others[i], Score(others[i], currentGame))]

\* the sort with the comparator turned round, (a, b) => a.score - b.score
SortByScore_Ascending(scored) ==
    LET Before(i, j) == \/ scored[i].score < scored[j].score
                        \/ (scored[i].score = scored[j].score /\ i < j)
        Rank(i) == 1 + Cardinality({j \in DOMAIN scored : Before(j, i)})
    IN  [k \in 1..Len(scored) |->
            scored[CHOOSE i \in DOMAIN scored : Rank(i) = k]]

\* .sort((a, b) => b.score - a.score): Array.prototype.sort is stable, so
\* equal scores keep their collection order
SortByScore(scored) ==
    LET Before(i, j) == \/ scored[i].score > scored[j].score
                        \/ (scored[i].score = scored[j].score /\ i < j)
        Rank(i) == 1 + Cardinality({j \in DOMAIN scored : Before(j, i)})
    IN  [k \in 1..Len(scored) |->
            scored[CHOOSE i \in DOMAIN scored : Rank(i) = k]]

\* .slice(0, n)
slice(s, n) == SubSeq(s, 1, IF Len(s) < n THEN Len(s) ELSE n)

\* .sort(() => Math.random() - 0.5).slice(0, n): the sort leaves some
\* permutation of the array, which one depends on the random draws; these are
\* the first n elements of every permutation of s, computed without
\* enumerating the order of the elements that are cut off
ShuffledSlices(s, n) ==
    LET m == IF Len(s) < n THEN Len(s) ELSE n
    IN  { [k \in 1..m |-> s[p[k]]] :
            p \in {q \in [1..m -> 1..Len(s)] :
                      \A a, b \in 1..m : a # b => q[a] # q[b]} }

\* every value getRelatedGames can return for these arguments
getRelatedGames(currentGame, allGames) ==
    ShuffledSlices(
        slice(SortByScore(scoredGames(currentGame, allGames)), TopCount),
        RelatedCount)

-----------------------------------------------------------------------------
(* The resource client, part_000 *)

\* localStorage.getItem("auth_token") of a store without the key
NoToken == <<"null">>
NoHeader == <<>>
NoStatus == -1       \* error.response is undefined

Bearer(token) == <<"Bearer ">> \o token

\* the request interceptor with the header written unconditionally
requestInterceptor_Unconditional(config, token) ==
    [config EXCEPT !.authorization = Bearer(token)]

\* request interceptor, part_000:18-26; `if (token)` is false for null and ""
requestInterceptor(config, token) ==
    IF token # NoToken /\ token # <<>>
    THEN [config EXCEPT !.authorization = Bearer(token)]
    ELSE config

\* response interceptor, success handler: the payload without the envelope
responseFulfilled(response) == response.data

\* the diagnostic the rejection handler prints, part_000:41-47
clientKind(error) ==
    IF error.code = "ECONNABORTED" THEN "Timeout"
    ELSE IF error.status = 0 THEN "NetworkUnreachable"
    ELSE IF error.status >= 500 THEN "ServerError"
    ELSE "none"

\* a rejection handler that replaces the error by a generic one
responseRejected_Generic(error) == [code |-> "ERR_API", status |-> NoStatus]

\* response interceptor, rejection handler: Promise.reject(error)
responseRejected(error) == error

\* gameService.getAll's catch block: throw error
getAllCatch(error) == error

\* the failures axios reports: a timeout, no response at all, 4xx, 5xx
TransportErrors ==
    { [code |-> "ECONNABORTED", status |-> NoStatus],
      [code |-> "ERR_NETWORK", status |-> NoStatus],
      [code |-> "ERR_BAD_REQUEST", status |-> 404],
      [code |-> "ERR_BAD_REQUEST", status |-> 403],
      [code |-> "ERR_BAD_RESPONSE", status |-> 500],
      [code |-> "ERR_BAD_RESPONSE", status |-> 503] }

NoError == [code |-> "", status |-> NoStatus]

-----------------------------------------------------------------------------
(* fetchGame, GameDetail.tsx:37-139 *)

\* the diagnostic of the catch block with the timeout tested first and every
\* 4xx reported
pageKind_AllClientErrors(error) ==
    IF error.code = "ECONNABORTED" THEN "Timeout"
    ELSE IF error.code = "ERR_NETWORK" \/ error.status = 0 THEN "NetworkUnreachable"
    ELSE IF error.status \in 400..499 THEN "ClientError"
    ELSE IF error.status >= 500 THEN "ServerError"
    ELSE "none"

\* the diagnostic the catch block prints, GameDetail.tsx:122-135
pageKind(error) ==
    IF error.code = "ERR_NETWORK" \/ error.status = 0 THEN "NetworkUnreachable"
    ELSE IF error.code = "ECONNABORTED" THEN "Timeout"
    ELSE IF error.status = 404 THEN "ClientError"
    ELSE IF error.status >= 500 THEN "ServerError"
    ELSE "none"

\* the payload shapes accepted at GameDetail.tsx:51-62
decodeGames(response) ==
    IF response.shape = "envelope" THEN [ok |-> TRUE, games |-> response.data]
    ELSE IF response.shape = "list" THEN [ok |-> TRUE, games |-> response.items]
    ELSE [ok |-> FALSE, games |-> <<>>]

-----------------------------------------------------------------------------
(* The component and the client at rest, for the direct calls *)

Idle ==
    /\ mounted = FALSE
    /\ epoch = 0
    /\ slug = <<>>
    /\ game = NoGame
    /\ relatedGames = <<>>
    /\ loading = FALSE
    /\ effectPending = FALSE
    /\ authToken = NoToken
    /\ inflight = {}
    /\ nextId = 0
    /\ diag = [outcome |-> "none", raw |-> NoError, caught |-> NoError,
               clientKind |-> "none", pageKind |-> "none"]

-----------------------------------------------------------------------------
(* createSlug called directly, then called on its own result *)

InitSlug ==
    /\ Idle
    /\ call \in {[fn |-> "createSlug", title |-> t] : t \in Titles}
    /\ ret = NoRet

CreateSlugCall ==
    /\ call.fn = "createSlug"
    /\ ret.stage = 0
    /\ ret' = [stage |-> 1, value |-> createSlug(call.title)]
    /\ UNCHANGED <<compVars, call>>

CreateSlugAgain ==
    /\ call.fn = "createSlug"
    /\ ret.stage = 1
    /\ ret' = [stage |-> 2, value |-> ret.value, again |-> createSlug(ret.value)]
    /\ UNCHANGED <<compVars, call>>

NextSlug == CreateSlugCall \/ CreateSlugAgain

SpecSlug == InitSlug /\ [][NextSlug]_vars

\* C2: createSlug is idempotent (applying it to its own result changes
\* nothing), and the two documented examples come out as documented:
\* "The Last of Us 2!" -> "the-last-of-us-2" and "  A -- B  " -> "a-b".
SlugIdempotent ==
    /\ ret.stage = 2 => ret.again = ret.value
    /\ (ret.stage >= 1 /\ call.title = TitleLastOfUs) => ret.value = SlugLastOfUs
    /\ (ret.stage >= 1 /\ call.title = TitleAB) => ret.value = SlugAB

\* a title with upper case, punctuation, a tab and a run of separators has
\* been slugged twice
SlugIdempotentWitness ==
    /\ ret.stage = 2
    /\ call.title = <<"B", "\t", "!">>
    /\ ret.value = <<"b">>

-----------------------------------------------------------------------------
(* The slug matching of fetchGame applied to a collection and a slug *)

Str_Ab   == <<"A", "b">>
Str_A_b  == <<"A", " ", "b">>
Str_ab_c == <<"a", "b", " ", "c">>
Str_B    == <<"B">>
Str_Bang == <<"!">>

MatchTitles == {Str_Ab, Str_A_b, Str_ab_c, Str_B, Str_Bang, NoTitle}

MatchSlugs ==
    { <<"a", "b">>, <<"a", "-", "b">>, <<"A", "-", "B">>, <<"A", "B">>,
      <<"b">>, <<"a">>, <<"z">>, <<"a", "-", "b", "-", "c">> }

\* a game of the payload; only the title matters to the matching
TitledGame(i, t) ==
    [id |-> i, title |-> t, genre |-> 1, console_type |-> "ps5",
     max_players |-> 1, rating |-> 40, is_popular |-> FALSE, is_new |-> FALSE]

MatchCollections ==
    UNION { { [i \in 1..n |-> TitledGame(i, ts[i])] : ts \in [1..n -> MatchTitles] }
            : n \in 0..MaxGames }

InitMatch ==
    /\ Idle
    /\ call \in {[fn |-> "findGame", games |-> gs, slug |-> s] :
                   gs \in MatchCollections, s \in MatchSlugs}
    /\ ret = NoRet

FindGameCall ==
    /\ call.fn = "findGame"
    /\ ret.stage = 0
    /\ ret' = [stage |-> 1, value |-> findGame(call.games, call.slug)]
    /\ UNCHANGED <<compVars, call>>

NextMatch == FindGameCall

SpecMatch == InitMatch /\ [][NextMatch]_vars

Min(S) == CHOOSE x \in S : \A y \in S : x <= y

SlugOf(gs, i) == createSlug(gs[i].title)
ExactHits(gs, s)   == {i \in DOMAIN gs : SlugOf(gs, i) = s}
NoCaseHits(gs, s)  == {i \in DOMAIN gs : toLowerCase(SlugOf(gs, i)) = toLowerCase(s)}
PartialHits(gs, s) == {i \in DOMAIN gs : includes(SlugOf(gs, i), s) \/ includes(s, SlugOf(gs, i))}

\* C1: the resolver returns the first exact hit if the collection has one,
\* otherwise the first case-insensitive hit, otherwise the first hit of the
\* containment test, and nothing when the collection has no hit at all; a
\* later test is used only when the earlier ones hit nowhere.
MatchOrder ==
    ret.stage = 1 =>
        LET gs == call.games
            s  == call.slug
        IN  /\ ExactHits(gs, s) # {} => ret.value = gs[Min(ExactHits(gs, s))]
            /\ (ExactHits(gs, s) = {} /\ NoCaseHits(gs, s) # {}) =>
                   ret.value = gs[Min(NoCaseHits(gs, s))]
            /\ (ExactHits(gs, s) = {} /\ NoCaseHits(gs, s) = {} /\ PartialHits(gs, s) # {}) =>
                   ret.value = gs[Min(PartialHits(gs, s))]
            /\ (ExactHits(gs, s) = {} /\ NoCaseHits(gs, s) = {} /\ PartialHits(gs, s) = {}) =>
                   ret.value = NoGame

\* the first game matches only by containment, the second exactly: the
\* second is returned
MatchOrderWitness ==
    /\ ret.stage = 1
    /\ Len(call.games) = 2
    /\ call.games[1].title = Str_ab_c
    /\ call.games[2].title = Str_Ab
    /\ call.slug = <<"a", "b">>
    /\ ret.value = call.games[2]

-----------------------------------------------------------------------------
(* getRelatedGames applied to a game and a collection *)

Genres == {0, 1, 2}
Consoles == {"ps4", "ps5"}
PlayerCounts == {1, 2, 4}
Ratings == {30, 35, 45}

Game(i, g, c, p, r, pop, new) ==
    [id |-> i, title |-> <<"g">>, genre |-> g, console_type |-> c,
     max_players |-> p, rating |-> r, is_popular |-> pop, is_new |-> new]

\* the game shown and one candidate, with every combination of attributes
PairInputs ==
    { [fn |-> "getRelatedGames",
       currentGame |-> Game(1, g1, c1, p1, r1, FALSE, FALSE),
       allGames |-> << Game(1, g1, c1, p1, r1, FALSE, FALSE),
                       Game(2, g2, c2, p2, r2, pop, new) >>] :
        g1 \in Genres, c1 \in Consoles, p1 \in PlayerCounts, r1 \in Ratings,
        g2 \in Genres, c2 \in Consoles, p2 \in PlayerCounts, r2 \in Ratings,
        pop \in BOOLEAN, new \in BOOLEAN }

\* two kinds of game that score 27 and 0 against each other
KindA(i) == Game(i, 1, "ps5", 2, 45, FALSE, FALSE)
KindB(i) == Game(i, 2, "ps4", 4, 30, FALSE, TRUE)

\* collections of one kind of game with at most one game of the other kind
\* (odd = 0: none), the game shown being the first or the last
Catalogs ==
    UNION { { [i \in 1..n |-> IF (i = odd) = flip THEN KindA(i) ELSE KindB(i)] :
                odd \in 0..n, flip \in BOOLEAN }
            : n \in 1..MaxCatalog }

CatalogInputs ==
    UNION { { [fn |-> "getRelatedGames", currentGame |-> gs[c], allGames |-> gs] :
                c \in {1, Len(gs)} }
            : gs \in Catalogs }

InitRelated ==
    /\ Idle
    /\ call \in PairInputs \cup CatalogInputs
    /\ ret = NoRet

GetRelatedGamesCall ==
    /\ call.fn = "getRelatedGames"
    /\ ret.stage = 0
    /\ \E sorted \in getRelatedGames(call.currentGame, call.allGames) :
          ret' = [stage |-> 1, value |-> sorted,
                  scored |-> scoredGames(call.currentGame, call.allGames)]
    /\ UNCHANGED <<compVars, call>>

NextRelated == GetRelatedGamesCall

SpecRelated == InitRelated /\ [][NextRelated]_vars

\* the game of the collection that a scored candidate was made from
Original(sg) ==
    CHOOSE i \in DOMAIN call.allGames : call.allGames[i].id = sg.id

SameGenre(g)    == g.genre = call.currentGame.genre
SameConsole(g)  == g.console_type = call.currentGame.console_type
NearPlayers(g)  == g.max_players - call.currentGame.max_players \in {-1, 0, 1}
NearRating(g)   == g.rating - call.currentGame.rating \in -5..5

Bonus(cond, n) == IF cond THEN n ELSE 0

\* C3: every candidate's score is the sum of the bonuses that apply to it
\* (genre 10, console 8, players 5, rating 4, popular 3, new 2), hence in
\* 0..32; 27 plus the popular/new bonuses when genre, console and both
\* thresholds match, and 0 when nothing does.
ScoreIsSumOfBonuses ==
    ret.stage = 1 =>
        \A k \in DOMAIN ret.scored :
            LET sg == ret.scored[k]
                g  == call.allGames[Original(sg)]
                flags == Bonus(g.is_popular, 3) + Bonus(g.is_new, 2)
            IN  /\ sg.score = Bonus(SameGenre(g), 10) + Bonus(SameConsole(g), 8)
                                + Bonus(NearPlayers(g), 5) + Bonus(NearRating(g), 4)
                                + flags
                /\ sg.score \in 0..32
                /\ (SameGenre(g) /\ SameConsole(g) /\ NearPlayers(g) /\ NearRating(g))
                      => sg.score = 27 + flags
                /\ (~SameGenre(g) /\ ~SameConsole(g) /\ ~NearPlayers(g) /\ ~NearRating(g)
                     /\ ~g.is_popular /\ ~g.is_new)
                      => sg.score = 0

\* a popular, new candidate that matches the game shown in everything has
\* been given the maximum, 32
ScoreWitness ==
    /\ ret.stage = 1
    /\ Len(ret.scored) = 1
    /\ ret.scored[1].score = 32
    /\ ret.scored[1].is_popular /\ ret.scored[1].is_new
    /\ ret.scored[1].rating # call.currentGame.rating

\* C4: whatever the shuffle does, at most 4 games are returned and none of
\* them has the id of the game shown.
RelatedAtMostFourWithoutSelf ==
    ret.stage = 1 =>
        /\ Len(ret.value) <= 4
        /\ \A k \in DOMAIN ret.value : ret.value[k].id # call.currentGame.id

\* nine candidates, four returned, in an order the stable sort alone would
\* not produce
RelatedWitness ==
    /\ ret.stage = 1
    /\ Len(call.allGames) = 10
    /\ Len(ret.scored) = 9
    /\ Len(ret.value) = 4
    /\ ret.value[1].id > ret.value[2].id

-----------------------------------------------------------------------------
(* The GameDetail page on top of the resource client *)

Slug_a == <<"a">>
Slug_b == <<"b">>
PageSlugs == {Slug_a, Slug_b}

GameA == Game(1, 1, "ps5", 2, 45, TRUE, FALSE) 
GameB == Game(2, 1, "ps4", 4, 45, FALSE, TRUE)

Titled(g, t) == [g EXCEPT !.title = t]

\* what GET /games can answer when it answers: the collection bare or in a
\* data envelope, the collection after the first game was withdrawn, or a
\* body that is no collection
ServerCollections ==
    { << Titled(GameA, <<"A">>), Titled(GameB, <<"B">>) >>,
      << Titled(GameB, <<"B">>) >> }

ResponseBodies ==
    { [shape |-> "list", items |-> gs] : gs \in ServerCollections }
    \cup { [shape |-> "envelope", data |-> gs] : gs \in ServerCollections }
    \cup { [shape |-> "other"] }

Tokens == { <<>>, <<"t", "1">> }

Endpoints == {"/games", "/consoles", "/me"}

Init ==
    /\ mounted = TRUE
    /\ epoch = 1
    /\ slug \in PageSlugs
    /\ game = NoGame
    /\ relatedGames = <<>>
    /\ loading = TRUE
    /\ effectPending = TRUE
    /\ authToken \in {NoToken, <<"t", "1">>}
    /\ inflight = {}
    /\ nextId = 0
    /\ diag = [outcome |-> "none", raw |-> NoError, caught |-> NoError,
               clientKind |-> "none", pageKind |-> "none"]
    /\ call = NoCall
    /\ ret = NoRet

\* api.get(url): the request leaves with what the request interceptor made of
\* its config
Send(url, owner, s) ==
    /\ nextId < MaxRequests
    /\ nextId' = nextId + 1
    /\ inflight' = inflight \cup
         { requestInterceptor(
             [id |-> nextId + 1, url |-> url, authorization |-> NoHeader,
              owner |-> owner, epoch |-> epoch, slug |-> s],
             authToken) }

\* fetchGame up to its await: setLoading(true), then gameService.getAll()
FetchStart ==
    /\ loading' = TRUE
    /\ Send("/games", "fetchGame", slug)

\* useEffect(() => { fetchGame() }, [fetchGame]) after a render with a new
\* fetchGame, GameDetail.tsx:219-221
RunEffect ==
    /\ mounted
    /\ effectPending
    /\ effectPending' = FALSE
    /\ FetchStart
    /\ UNCHANGED <<mounted, epoch, slug, game, relatedGames, authToken, diag, call, ret>>

\* the "Try Again" button, rendered when !game && !loading
Retry ==
    /\ mounted
    /\ ~effectPending
    /\ ~loading
    /\ game = NoGame
    /\ FetchStart
    /\ UNCHANGED <<mounted, epoch, slug, game, relatedGames, effectPending,
                   authToken, diag, call, ret>>

\* the route parameter changes under the mounted page: useParams gives the
\* new slug, useCallback a new fetchGame, and the effect is due again
SlugChange(s) ==
    /\ mounted
    /\ ~effectPending
    /\ s # slug
    /\ slug' = s
    /\ effectPending' = TRUE
    /\ UNCHANGED <<mounted, epoch, game, relatedGames, loading, authToken,
                   inflight, nextId, diag, call, ret>>

\* the page is left: the instance and its state are gone, its requests are not
Unmount ==
    /\ mounted
    /\ mounted' = FALSE
    /\ slug' = <<>>
    /\ game' = NoGame
    /\ relatedGames' = <<>>
    /\ loading' = FALSE
    /\ effectPending' = FALSE
    /\ UNCHANGED <<epoch, authToken, inflight, nextId, diag, call, ret>>

\* the page is entered again: a new instance with the initial useState values
Mount(s) ==
    /\ ~mounted
    /\ epoch < MaxMounts
    /\ mounted' = TRUE
    /\ epoch' = epoch + 1
    /\ slug' = s
    /\ game' = NoGame
    /\ relatedGames' = <<>>
    /\ loading' = TRUE
    /\ effectPending' = TRUE
    /\ UNCHANGED <<authToken, inflight, nextId, diag, call, ret>>

\* the setters of the instance that sent r; React drops the updates of an
\* instance that is no longer mounted
SetState(r, g, rel, ld) ==
    IF mounted /\ r.epoch = epoch
    THEN /\ game' = g
         /\ relatedGames' = rel
         /\ loading' = ld
    ELSE UNCHANGED <<game, relatedGames, loading>>

Report(outcome, error, thrown, ck, pk) ==
    diag' = [outcome |-> outcome, raw |-> error, caught |-> thrown,
             clientKind |-> ck, pageKind |-> pk]

\* GET /games answers 2xx: the rest of fetchGame's try block, then finally
FetchFulfilled(r, body) ==
    /\ r \in inflight
    /\ r.owner = "fetchGame"
    /\ inflight' = inflight \ {r}
    /\ LET response == responseFulfilled([status |-> 200, data |-> body])
           decoded  == decodeGames(response)
           foundGame == findGame(decoded.games, r.slug)
       IN  IF ~decoded.ok
           THEN /\ SetState(r, game, relatedGames, FALSE)
                /\ Report("malformed", NoError, NoError, "none", "none")
           ELSE IF foundGame = NoGame
           THEN /\ SetState(r, NoGame, relatedGames, FALSE)
                /\ Report("notfound", NoError, NoError, "none", "none")
           ELSE /\ \E related \in getRelatedGames(foundGame, decoded.games) :
                      SetState(r, foundGame, related, FALSE)
                /\ Report("found", NoError, NoError, "none", "none")
    /\ UNCHANGED <<mounted, epoch, slug, effectPending, authToken, nextId, call, ret>>

\* the failure path with setLoading(false) at the end of the try block
\* instead of in finally: a rejected call leaves loading as it was
FetchRejected_NoFinally(r, error) ==
    /\ r \in inflight
    /\ r.owner = "fetchGame"
    /\ inflight' = inflight \ {r}
    /\ LET thrown == getAllCatch(responseRejected(error))
       IN  /\ SetState(r, game, relatedGames, loading)
           /\ Report("error", error, thrown, clientKind(error), pageKind(thrown))
    /\ UNCHANGED <<mounted, epoch, slug, effectPending, authToken, nextId, call, ret>>

\* GET /games fails: both interceptor and getAll rethrow, fetchGame's catch
\* block prints its diagnostic, then finally
FetchRejected(r, error) ==
    /\ r \in inflight
    /\ r.owner = "fetchGame"
    /\ inflight' = inflight \ {r}
    /\ LET thrown == getAllCatch(responseRejected(error))
       IN  /\ SetState(r, game, relatedGames, FALSE)
           /\ Report("error", error, thrown, clientKind(error), pageKind(thrown))
    /\ UNCHANGED <<mounted, epoch, slug, effectPending, authToken, nextId, call, ret>>

\* another page calls one of the other services of the client
ServiceCall(url) ==
    /\ Send(url, "other", <<>>)
    /\ UNCHANGED <<mounted, epoch, slug, game, relatedGames, loading,
                   effectPending, authToken, diag, call, ret>>

ServiceFulfilled(r) ==
    /\ r \in inflight
    /\ r.owner = "other"
    /\ inflight' = inflight \ {r}
    /\ Report("other-ok", NoError, NoError, "none", "none")
    /\ UNCHANGED <<mounted, epoch, slug, game, relatedGames, loading,
                   effectPending, authToken, nextId, call, ret>>

ServiceRejected(r, error) ==
    /\ r \in inflight
    /\ r.owner = "other"
    /\ inflight' = inflight \ {r}
    /\ Report("other-error", error, responseRejected(error), clientKind(error), "none")
    /\ UNCHANGED <<mounted, epoch, slug, game, relatedGames, loading,
                   effectPending, authToken, nextId, call, ret>>

\* login and logout elsewhere in the application write and remove the token
StoreToken(t) ==
    /\ authToken # t
    /\ authToken' = t
    /\ UNCHANGED <<mounted, epoch, slug, game, relatedGames, loading,
                   effectPending, inflight, nextId, diag, call, ret>>

Next ==
    \/ RunEffect
    \/ Retry
    \/ \E s \in PageSlugs : SlugChange(s)
    \/ Unmount
    \/ \E s \in PageSlugs : Mount(s)
    \/ \E r \in inflight, body \in ResponseBodies : FetchFulfilled(r, body)
    \/ \E r \in inflight, error \in TransportErrors : FetchRejected(r, error)

Spec == Init /\ [][Next]_vars

\* a request of the page settles: axios answers, fails, or gives up when its
\* timeout of 10 s runs out (part_000:14), so no request stays pending
FetchSettles ==
    \E r \in inflight :
        \/ \E body \in ResponseBodies : FetchFulfilled(r, body)
        \/ \E error \in TransportErrors : FetchRejected(r, error)

\* the page of a visitor who is not logged in; the token only decides the
\* header of the requests, which nothing on the page reads
InitFair == Init /\ authToken = NoToken

FairSpec == InitFair /\ [][Next]_vars /\ WF_vars(FetchSettles)

\* the client used by the other pages, GameDetail not being on screen
InitClient ==
    /\ Idle
    /\ call = NoCall
    /\ ret = NoRet

NextClient ==
    \/ \E url \in Endpoints : ServiceCall(url)
    \/ \E r \in inflight : ServiceFulfilled(r)
    \/ \E r \in inflight, error \in TransportErrors : ServiceRejected(r, error)
    \/ \E t \in {NoToken} \cup Tokens : StoreToken(t)

SpecClient == InitClient /\ [][NextClient]_vars

TypeOK ==
    /\ mounted \in BOOLEAN
    /\ loading \in BOOLEAN
    /\ effectPending \in BOOLEAN
    /\ epoch \in 0..MaxMounts
    /\ nextId \in 0..MaxRequests
    /\ Cardinality(inflight) <= MaxRequests

-----------------------------------------------------------------------------
(* Properties of the page and of the client *)

Settled == inflight \ inflight'
Sent    == inflight' \ inflight

FetchesInFlight ==
    {r \in inflight : r.owner = "fetchGame" /\ r.epoch = epoch}

\* C5: when the fetch step of a cycle of the mounted page fails (the call is
\* rejected, or the body is no collection), the page ends in the not-found
\* state: no game shown and not loading, whatever was shown before.
FetchFailureEndsNotFound ==
    [][ \A r \in Settled :
          (mounted /\ r.owner = "fetchGame" /\ r.epoch = epoch
             /\ diag'.outcome \in {"error", "malformed"})
          => (game' = NoGame /\ loading' = FALSE) ]_vars

\* C6: a request leaves with Authorization: Bearer <token> exactly when the
\* store holds a (non-empty) token at the moment of sending, the token being
\* the one in the store at that moment; without one it leaves all the same,
\* with no Authorization header.
AuthHeaderFollowsStore ==
    [][ \A r \in Sent :
          /\ (authToken # NoToken /\ authToken # <<>>)
                => r.authorization = Bearer(authToken)
          /\ (authToken = NoToken \/ authToken = <<>>)
                => r.authorization = NoHeader ]_vars

\* two requests wait for their answers, one sent without token and one sent
\* with it
AuthHeaderWitness ==
    \E r1, r2 \in inflight :
        /\ r1.authorization = NoHeader
        /\ r2.authorization = Bearer(<<"t", "1">>)
        /\ r1.id < r2.id

\* the kind the claim gives to a failure
ClaimedKind(error) ==
    IF error.code = "ECONNABORTED" THEN "Timeout"
    ELSE IF error.status = NoStatus THEN "NetworkUnreachable"
    ELSE IF error.status >= 500 THEN "ServerError"
    ELSE IF error.status \in 400..499 THEN "ClientError"
    ELSE "none"

\* C7 as stated: every failed call is given exactly one kind, Timeout for a
\* timeout, NetworkUnreachable without response status, ServerError from 500
\* and ClientError for every 4xx.
EveryFailureClassified ==
    diag.outcome = "error" => diag.pageKind = ClaimedKind(diag.raw)

\* C7 amended: a failed getAll is given at most one kind by fetchGame:
\* Timeout for a timeout, NetworkUnreachable for a network error without
\* response, ServerError from 500, ClientError for 404 only, and no kind for
\* the other 4xx; the interceptor names only timeouts and statuses from 500,
\* and never differently from fetchGame.
FailureDiagnostics ==
    diag.outcome = "error" =>
        LET e == diag.raw
        IN  /\ e.code = "ECONNABORTED" => diag.pageKind = "Timeout"
            /\ (e.code = "ERR_NETWORK" /\ e.status = NoStatus)
                  => diag.pageKind = "NetworkUnreachable"
            /\ e.status >= 500 => diag.pageKind = "ServerError"
            /\ e.status = 404 => diag.pageKind = "ClientError"
            /\ (e.status \in 400..499 /\ e.status # 404) => diag.pageKind = "none"
            /\ diag.pageKind = "Timeout" => e.code = "ECONNABORTED"
            /\ diag.pageKind = "NetworkUnreachable" => e.status = NoStatus
            /\ diag.pageKind = "ServerError" => e.status >= 500
            /\ diag.clientKind \in {"none", diag.pageKind}
            /\ diag.clientKind = "none" <=>
                  (e.code # "ECONNABORTED" /\ e.status < 500)

\* a 403 came back and was given no kind
FailureDiagnosticsWitness ==
    /\ diag.outcome = "error"
    /\ diag.raw.status = 403
    /\ diag.pageKind = "none"
    /\ diag.clientKind = "none"

\* C8: nothing is sent again by itself: the step in which a call settles
\* sends no request, a failure reaches fetchGame as the very error the
\* transport raised, and a request is sent only by the effect of a page
\* load for a slug or by the retry button of the not-found state.
NoAutomaticRetry ==
    [][ /\ Settled # {} =>
             /\ Sent = {}
             /\ nextId' = nextId
             /\ diag'.outcome = "error" => diag'.caught = diag'.raw
        /\ Sent # {} =>
             /\ Cardinality(Sent) = 1
             /\ mounted
             /\ effectPending \/ (~loading /\ game = NoGame) ]_vars

\* the only fetch of the page failed with a timeout; the page shows the retry
\* button and no second request has left
NoAutomaticRetryWitness ==
    /\ mounted
    /\ diag.outcome = "error"
    /\ diag.caught.code = "ECONNABORTED"
    /\ nextId = 1
    /\ inflight = {}
    /\ ~loading
    /\ game = NoGame

\* C9: an answer that arrives after the page was left, or after a newer fetch
\* was started for another slug, writes none of game, relatedGames, loading.
NoStaleWriteBack ==
    [][ \A r \in Settled :
          (r.owner = "fetchGame"
             /\ \/ ~mounted
                \/ r.epoch # epoch
                \/ (~effectPending /\ r.slug # slug))
          => UNCHANGED <<game, relatedGames, loading>> ]_vars

\* C10: the mounted page never has two fetches of the collection in flight.
AtMostOneFetchInFlight ==
    mounted => Cardinality(FetchesInFlight) <= 1

\* C11: a fetch cycle that has put the mounted page into Loading leaves it
\* again (loading false, the page showing a game or the not-found state),
\* whatever the request comes to; and the mounted page goes from not loading
\* back to loading only in a step that sends a fetch, from the effect of a new
\* slug or from the retry button of the not-found state.
LoadingCycle ==
    /\ (mounted /\ loading /\ FetchesInFlight # {}) ~> (~loading \/ ~mounted)
    /\ [][ (mounted /\ mounted' /\ ~loading /\ loading')
              => /\ Sent # {}
                 /\ \A r \in Sent : r.owner = "fetchGame" /\ r.slug = slug
                 /\ effectPending \/ game = NoGame ]_vars

\* the only fetch of the page answered a body that is no collection: the page
\* has left Loading for the not-found state
LoadingCycleWitness ==
    /\ mounted
    /\ ~loading
    /\ game = NoGame
    /\ diag.outcome = "malformed"
    /\ nextId = 1
    /\ inflight = {}

\* the games of the collection that are not the game shown
Candidates ==
    {i \in DOMAIN call.allGames : call.allGames[i].id # call.currentGame.id}

\* C12: whatever the shuffle does, every returned game is a scored candidate
\* that fewer than 8 candidates beat on score, and the result has exactly
\* min(4, number of candidates) games.
RelatedFromTopEight ==
    ret.stage = 1 =>
        /\ \A k \in DOMAIN ret.value :
              /\ \E j \in DOMAIN ret.scored : ret.scored[j] = ret.value[k]
              /\ Cardinality({j \in DOMAIN ret.scored :
                                ret.scored[j].score > ret.value[k].score}) < 8
        /\ Len(ret.value) = Min({4, Cardinality(Candidates)})

\* nine candidates, eight scoring 27 and one scoring less: four of the eight
\* are returned
RelatedFromTopEightWitness ==
    /\ ret.stage = 1
    /\ Cardinality(Candidates) = 9
    /\ Cardinality({j \in DOMAIN ret.scored : ret.scored[j].score = 27}) = 8
    /\ \E j \in DOMAIN ret.scored : ret.scored[j].score < 27
    /\ Len(ret.value) = 4
    /\ \A k \in DOMAIN ret.value : ret.value[k].score = 27

====
